---- MODULE Spec2Model ----
(***************************************************************************)
(* Model of grab_condor_docs.py: the scraper of the HTCondor manual.       *)
(*                                                                         *)
(* Text is a sequence of lexical units.  A unit is one character ("a",     *)
(* " ", "\n", ...) or one whole word the patterns of the program look for  *)
(* ("Synopsis", "Description", a command name), so that a pattern match is *)
(* a match of units.                                                       *)
(***************************************************************************)
EXTENDS Integers, Sequences, FiniteSets, TLC

VARIABLES
    raw, norm, npc,          \* the normalizer alone: input, output, position
    resp, info, epc,         \* grab_cmd_info: response, returned dict, position
    version_list, sorted_list, spc,  \* sort_versions: argument, result, position
    site,                    \* the manual site: the response to each page request
    manuals,                 \* the versions whose manual root answers 200
    version, linked, lpc,    \* get_linked_versions: argument, result, position
    versions, results, gpc, iters,   \* get_versions: locals, position, iterations
    commands, idx, dump, dpc,        \* grab_condor_docs: locals, dump.json, position
    fetchLog                 \* the page requests of grab_condor_docs and their responses

normVars == <<raw, norm, npc>>
extractVars == <<resp, info, epc>>
sortVars == <<version_list, sorted_list, spc>>
linkedVars == <<version, linked, lpc>>
versionsVars == <<versions, results, gpc, iters>>
siteVars == <<site, manuals>>
vars == <<raw, norm, npc, resp, info, epc, version_list, sorted_list, spc,
          site, manuals, version, linked, lpc, versions, results, gpc, iters,
          commands, idx, dump, dpc, fetchLog>>
docsVars == <<commands, idx, dump, dpc, fetchLog>>

-----------------------------------------------------------------------------
(* Bounds *)
MaxLen == 5
MaxLines == 4
MaxVersions == 3
MaxAnchors == 2
MaxIters == 4
MaxCommands == 2

-----------------------------------------------------------------------------
(* Characters *)
NL == "\n"
SP == " "
TAB == "\t"
NBSP == "nbsp"

\* the class [\s\xa0] of the two whitespace substitutions
Space == {SP, TAB, NL, NBSP}

None == <<"None">>

RECURSIVE SeqsUpTo(_, _)
SeqsUpTo(S, n) ==
    IF n = 0 THEN {<<>>}
    ELSE LET shorter == SeqsUpTo(S, n - 1)
         IN  shorter \cup {Append(s, c) : s \in shorter, c \in S}

\* index of the last unit of the longest run of units of C that starts at i
\* (i - 1 when s[i] is not in C)
RECURSIVE RunEnd(_, _, _)
RunEnd(s, i, C) ==
    IF i <= Len(s) /\ s[i] \in C THEN RunEnd(s, i + 1, C) ELSE i - 1

\* largest k in lo..hi with s[k] = c, 0 when there is none
RECURSIVE LastAt(_, _, _, _)
LastAt(s, lo, hi, c) ==
    IF hi < lo THEN 0
    ELSE IF s[hi] = c THEN hi ELSE LastAt(s, lo, hi - 1, c)

-----------------------------------------------------------------------------
(* Text normalizer: the three substitutions of grab_cmd_info *)

\* re.sub(r'\n\n+', '\n', body)
RECURSIVE SubNewlinesFrom(_, _)
SubNewlinesFrom(s, i) ==
    IF i > Len(s) THEN <<>>
    ELSE IF s[i] = NL /\ i + 1 <= Len(s) /\ s[i + 1] = NL
         THEN <<NL>> \o SubNewlinesFrom(s, RunEnd(s, i, {NL}) + 1)
         ELSE <<s[i]>> \o SubNewlinesFrom(s, i + 1)

SubNewlines(s) == SubNewlinesFrom(s, 1)

\* re.sub(r'\n[\s\xa0]+', '\n', body)
RECURSIVE SubLeadingFrom(_, _)
SubLeadingFrom(s, i) ==
    IF i > Len(s) THEN <<>>
    ELSE IF s[i] = NL /\ i + 1 <= Len(s) /\ s[i + 1] \in Space
         THEN <<NL>> \o SubLeadingFrom(s, RunEnd(s, i + 1, Space) + 1)
         ELSE <<s[i]>> \o SubLeadingFrom(s, i + 1)

\* the same substitution with the + lost: one character after the newline
RECURSIVE SubLeadingOneFrom(_, _)
SubLeadingOneFrom(s, i) ==
    IF i > Len(s) THEN <<>>
    ELSE IF s[i] = NL /\ i + 1 <= Len(s) /\ s[i + 1] \in Space
         THEN <<NL>> \o SubLeadingOneFrom(s, i + 2)
         ELSE <<s[i]>> \o SubLeadingOneFrom(s, i + 1)

SubLeadingOne(s) == SubLeadingOneFrom(s, 1)

SubLeading(s) == SubLeadingFrom(s, 1)

\* re.sub(r'[\s\xa0]+\n', '\n', body): the greedy run backtracks to its last
\* newline, which must leave at least one character of the run before it
RECURSIVE SubTrailingFrom(_, _)
SubTrailingFrom(s, i) ==
    IF i > Len(s) THEN <<>>
    ELSE LET k == IF s[i] \in Space
                  THEN LastAt(s, i + 1, RunEnd(s, i, Space), NL)
                  ELSE 0
         IN  IF k # 0
             THEN <<NL>> \o SubTrailingFrom(s, k + 1)
             ELSE <<s[i]>> \o SubTrailingFrom(s, i + 1)

\* the trailing substitution left out
SubTrailingSkipped(s) == s

SubTrailing(s) == SubTrailingFrom(s, 1)

Normalize(s) == SubTrailing(SubLeading(SubNewlines(s)))

-----------------------------------------------------------------------------
(* Specification of the normalizer alone *)
NormChars == {"a", SP, NBSP, TAB, NL}

NormIdle == raw = <<>> /\ norm = None /\ npc = "idle"
ExtractIdle == resp = None /\ info = None /\ epc = "idle"
SortIdle == version_list = <<>> /\ sorted_list = None /\ spc = "idle"
LinkedIdle == version = <<>> /\ linked = None /\ lpc = "idle"
VersionsIdle == versions = <<>> /\ results = <<>> /\ gpc = "idle" /\ iters = 0
SiteIdle == site = <<>> /\ manuals = {}
DocsIdle ==
    commands = <<>> /\ idx = 0 /\ dump = None /\ dpc = "idle" /\ fetchLog = <<>>

NormInit ==
    /\ raw \in SeqsUpTo(NormChars, MaxLen)
    /\ norm = None
    /\ npc = "start"
    /\ ExtractIdle /\ SortIdle /\ LinkedIdle /\ VersionsIdle /\ SiteIdle
    /\ DocsIdle

NormalizeBody ==
    /\ npc = "start"
    /\ norm' = Normalize(raw)
    /\ npc' = "done"
    /\ UNCHANGED <<raw, extractVars, sortVars, linkedVars, versionsVars, siteVars, docsVars>>

NormNext == NormalizeBody

SpecNorm == NormInit /\ [][NormNext]_vars

\* the lines of a text: the pieces between its newlines
LineStarts(s) == {1} \cup {i + 1 : i \in {j \in 1..Len(s) : s[j] = NL}}
LineEnd(s, b) == IF \E j \in b..Len(s) : s[j] = NL
                 THEN (CHOOSE j \in b..Len(s) :
                          s[j] = NL /\ \A h \in b..(j - 1) : s[h] # NL) - 1
                 ELSE Len(s)

\* C6 as stated: the normalized text has no blank line and no line, the
\* first and the last included, that begins or ends with whitespace or NBSP
AllLinesStripped ==
    npc = "done" =>
        \A b \in LineStarts(norm) :
            LET e == LineEnd(norm, b)
            IN  /\ e >= b
                /\ norm[b] \notin Space
                /\ norm[e] \notin Space

\* C6 amended: in the normalized text no newline is followed by a newline,
\* whitespace or NBSP, and no newline is preceded by one: no blank line
\* between two lines, no line but the first begins with whitespace and no
\* line but the last ends with it
InnerLinesStripped ==
    npc = "done" =>
        \A i \in 1..Len(norm) :
            norm[i] = NL =>
                /\ i < Len(norm) => norm[i + 1] \notin Space
                /\ i > 1 => norm[i - 1] \notin Space

\* a text with blank lines and padded lines inside was normalized
InnerLinesStrippedWitness ==
    /\ npc = "done"
    /\ \E i \in 2..(Len(raw) - 1) :
          raw[i] = NL /\ raw[i - 1] \in Space /\ raw[i + 1] \in Space
    /\ \E i \in 2..(Len(norm) - 1) : norm[i] = NL

\* C7: normalizing the normalized text again changes nothing
NormalizeIdempotent ==
    npc = "done" => Normalize(norm) = norm

\* the first normalization changed the text
NormalizeIdempotentWitness ==
    /\ npc = "done"
    /\ norm # raw
    /\ Len(norm) >= 3
-----------------------------------------------------------------------------
(* Field extractor: grab_cmd_info *)

\* units made of word characters only (\w of the brief pattern)
WordUnits == {"a", "foo", "FOO", "Synopsis", "Description",
              "condor_submit_dag", "condor_q"}

\* case folding of re.IGNORECASE
Lower(u) ==
    CASE u = "FOO" -> "foo"
      [] u = "Synopsis" -> "synopsis"
      [] u = "Description" -> "description"
      [] OTHER -> u

Matches(u, literal) == Lower(u) = Lower(literal)

\* the class [\d\w.()-/ '\n] of the brief pattern; )-/ is the range ) * + , - . /
BriefClass == WordUnits \cup {".", "(", ")", "*", "+", ",", "-", "/", SP, "'", NL}

\* r.raise_for_status(): HTTPError for a 4xx or 5xx status
RaiseForStatus(status) == status \in 400..599

ReplaceNL(s) == [i \in 1..Len(s) |-> IF s[i] = NL THEN SP ELSE s[i]]

\* unicode.strip(): whitespace removed at both ends
Strip(s) ==
    LET keep == {i \in 1..Len(s) : s[i] \notin Space}
    IN  IF keep = {} THEN <<>>
        ELSE LET lo == CHOOSE i \in keep : \A j \in keep : i <= j
                 hi == CHOOSE i \in keep : \A j \in keep : i >= j
             IN  SubSeq(s, lo, hi)

\* str.split(sep) for a separator of one unit, case-sensitive
RECURSIVE SplitFrom(_, _, _, _)
SplitFrom(s, sep, i, cur) ==
    IF i > Len(s) THEN <<cur>>
    ELSE IF s[i] = sep THEN <<cur>> \o SplitFrom(s, sep, i + 1, <<>>)
         ELSE SplitFrom(s, sep, i + 1, Append(cur, s[i]))

Split(s, sep) == SplitFrom(s, sep, 1, <<>>)

\* largest e in lo..hi at which the tail of the brief pattern, \nSynopsis,
\* follows the capture; -1 when there is none (the greedy * backtracking)
RECURSIVE BriefCaptureEnd(_, _, _)
BriefCaptureEnd(s, lo, hi) ==
    IF hi < lo THEN -1
    ELSE IF /\ hi + 2 <= Len(s)
            /\ s[hi + 1] = NL
            /\ Matches(s[hi + 2], "Synopsis")
         THEN hi
         ELSE BriefCaptureEnd(s, lo, hi - 1)

\* the brief pattern tried at position i: the end of group 1, or -1
BriefMatchAt(s, i, name) ==
    IF Matches(s[i], name) /\ i + 1 <= Len(s) /\ s[i + 1] = NL
    THEN BriefCaptureEnd(s, i + 1, RunEnd(s, i + 2, BriefClass))
    ELSE -1

\* p_brief.search(body): group 1 of the leftmost match, or None
RECURSIVE BriefSearchFrom(_, _, _)
BriefSearchFrom(s, i, name) ==
    IF i > Len(s) THEN None
    ELSE LET e == BriefMatchAt(s, i, name)
         IN  IF e # -1 THEN SubSeq(s, i + 2, e)
             ELSE BriefSearchFrom(s, i + 1, name)

BriefSearch(s, name) == BriefSearchFrom(s, 1, name)

\* largest e in lo..hi after which [\n ]+Description follows; -1 when none
RECURSIVE SynopsisCaptureEnd(_, _, _)
SynopsisCaptureEnd(s, lo, hi) ==
    IF hi < lo THEN -1
    ELSE LET w == RunEnd(s, hi + 1, {NL, SP})
         IN  IF /\ w >= hi + 1
                /\ w + 1 <= Len(s)
                /\ Matches(s[w + 1], "Description")
             THEN hi
             ELSE SynopsisCaptureEnd(s, lo, hi - 1)

\* the synopsis pattern tried at position i: the end of group 1, or -1
SynopsisMatchAt(s, i, name) ==
    IF /\ Matches(s[i], "Synopsis")
       /\ i + 2 <= Len(s)
       /\ s[i + 1] = NL
       /\ Matches(s[i + 2], name)
    THEN SynopsisCaptureEnd(s, i + 3, Len(s))
    ELSE -1

\* p_synopsis.search(body): group 1 of the leftmost match, or None
RECURSIVE SynopsisSearchFrom(_, _, _)
SynopsisSearchFrom(s, i, name) ==
    IF i > Len(s) THEN None
    ELSE LET e == SynopsisMatchAt(s, i, name)
         IN  IF e # -1 THEN SubSeq(s, i + 2, e)
             ELSE SynopsisSearchFrom(s, i + 1, name)

SynopsisSearch(s, name) == SynopsisSearchFrom(s, 1, name)

\* info['brief']
BriefInfo(name, body) ==
    LET brief_search == BriefSearch(body, name)
    IN  IF brief_search # None THEN ReplaceNL(brief_search) ELSE None

\* info['synopsis']
SynopsisInfo(name, body) ==
    LET synopsis_raw == SynopsisSearch(body, name)
    IN  IF synopsis_raw # None
        THEN LET parts == SelectSeq(Split(synopsis_raw, name),
                                    LAMBDA f : f # <<>>)
             IN  [k \in 1..Len(parts) |-> Strip(ReplaceNL(parts[k]))]
        ELSE None

\* grab_cmd_info returning as soon as the brief pattern misses
GrabCmdInfoShortCircuit(cmd, r) ==
    IF RaiseForStatus(r.status)
    THEN [raised |-> "HTTPError", brief |-> None, synopsis |-> None]
    ELSE IF r.body = None
    THEN [raised |-> "AttributeError", brief |-> None, synopsis |-> None]
    ELSE LET body == Normalize(r.body)
             brief == BriefInfo(cmd.name, body)
         IN  [raised |-> "none",
              brief |-> brief,
              synopsis |-> IF brief = None THEN None
                           ELSE SynopsisInfo(cmd.name, body)]

\* grab_cmd_info(cmd) on the response r of requests.get(cmd.url); a response
\* whose document has no body element has r.body = None
GrabCmdInfo(cmd, r) ==
    IF RaiseForStatus(r.status)
    THEN [raised |-> "HTTPError", brief |-> None, synopsis |-> None]
    ELSE IF r.body = None
    THEN [raised |-> "AttributeError", brief |-> None, synopsis |-> None]
    ELSE LET body == Normalize(r.body)
         IN  [raised |-> "none",
              brief |-> BriefInfo(cmd.name, body),
              synopsis |-> SynopsisInfo(cmd.name, body)]

\* CondorCmd(name, url=url)
CondorCmd(name, url) ==
    [name |-> name, brief |-> None, synopsis |-> None,
     description |-> None, options |-> None, url |-> url]

-----------------------------------------------------------------------------
(* Specification of grab_cmd_info alone, on the page of the command foo *)
Statuses == {200, 300, 404, 503}

FooCmd == CondorCmd("foo", "foo.html")

PageLines == {<<"foo">>, <<"foo", SP, "a">>, <<"FOO", SP, "a">>,
              <<"Synopsis">>, <<SP, "Description">>, <<"a">>, <<"[">>}

RECURSIVE JoinLines(_)
JoinLines(ls) ==
    IF ls = <<>> THEN <<>>
    ELSE IF Len(ls) = 1 THEN ls[1]
         ELSE ls[1] \o <<NL>> \o JoinLines(Tail(ls))

PageTexts == {JoinLines(ls) : ls \in SeqsUpTo(PageLines, MaxLines)}

ExtractInit ==
    /\ resp \in [status : {200}, body : PageTexts \cup {None}]
                 \cup [status : Statuses \ {200}, body : {<<>>}]
    /\ info = None
    /\ epc = "start"
    /\ NormIdle /\ SortIdle /\ LinkedIdle /\ VersionsIdle /\ SiteIdle
    /\ DocsIdle

GrabCmdInfoCall ==
    /\ epc = "start"
    /\ info' = GrabCmdInfo(FooCmd, resp)
    /\ epc' = "done"
    /\ UNCHANGED <<resp, normVars, sortVars, linkedVars, versionsVars, siteVars, docsVars>>

ExtractNext == GrabCmdInfoCall

SpecExtract == ExtractInit /\ [][ExtractNext]_vars

\* the text the two patterns were searched in
Extracted == epc = "done" /\ info.raised = "none"
SearchedText == Normalize(resp.body)
HasUnit(s, literal) == \E i \in 1..Len(s) : Matches(s[i], literal)

\* the brief pattern has a match in s, stated without the search order
BriefPatternMatches(s, name) ==
    \E i \in 1..Len(s) : \E e \in (i + 1)..(Len(s) - 2) :
        /\ Matches(s[i], name)
        /\ s[i + 1] = NL
        /\ \A k \in (i + 2)..e : s[k] \in BriefClass
        /\ s[e + 1] = NL
        /\ Matches(s[e + 2], "Synopsis")

\* the synopsis pattern has a match in s, stated without the search order
SynopsisPatternMatches(s, name) ==
    \E i \in 1..Len(s) : \E e \in (i + 3)..Len(s) : \E w \in (e + 1)..(Len(s) - 1) :
        /\ Matches(s[i], "Synopsis")
        /\ s[i + 1] = NL
        /\ Matches(s[i + 2], name)
        /\ \A k \in (e + 1)..w : s[k] \in {NL, SP}
        /\ Matches(s[w + 1], "Description")

\* C3: on a match every element of the synopsis is a non-empty string and
\* none contains the command name
SynopsisFragmentsNonEmpty ==
    (Extracted /\ info.synopsis # None) =>
        \A k \in 1..Len(info.synopsis) :
            /\ info.synopsis[k] # <<>>
            /\ \A j \in 1..Len(info.synopsis[k]) :
                   info.synopsis[k][j] # FooCmd.name

\* the brief the claim describes: from the line after the command-name line
\* of the leftmost match up to the first following line that starts with
\* Synopsis, newlines replaced by spaces
BriefUpToFirstSynopsis(s, name) ==
    LET starts == {i \in 1..Len(s) : BriefMatchAt(s, i, name) # -1}
        i == CHOOSE x \in starts : \A y \in starts : x <= y
        stops == {e \in (i + 1)..(Len(s) - 2) :
                     s[e + 1] = NL /\ Matches(s[e + 2], "Synopsis")}
        e == CHOOSE x \in stops : \A y \in stops : x <= y
    IN  ReplaceNL(SubSeq(s, i + 2, e))

\* C4: when the brief pattern matches, the brief is the text after the
\* command-name line up to the first subsequent line that starts with
\* Synopsis, never a later one, with newlines replaced by spaces
BriefStopsAtFirstSynopsis ==
    (Extracted /\ info.brief # None) =>
        info.brief = BriefUpToFirstSynopsis(SearchedText, FooCmd.name)

\* C5: a miss is None and never an exception, a text without the Synopsis or
\* the Description keyword has synopsis None, and each field is None exactly
\* when its own pattern has no match, whatever the other pattern did
ExtractionsIndependent ==
    (epc = "done" /\ resp.status = 200 /\ resp.body # None) =>
        /\ info.raised = "none"
        /\ (~HasUnit(SearchedText, "Synopsis") \/ ~HasUnit(SearchedText, "Description"))
              => info.synopsis = None
        /\ info.synopsis # None <=> SynopsisPatternMatches(SearchedText, FooCmd.name)
        /\ info.brief # None <=> BriefPatternMatches(SearchedText, FooCmd.name)

\* the brief pattern missed and the synopsis was still extracted
ExtractionsIndependentWitness ==
    /\ Extracted
    /\ info.brief = None
    /\ info.synopsis # None
    /\ Len(info.synopsis) >= 1
-----------------------------------------------------------------------------
(* sort_versions *)

\* x.replace('v', '')
RemoveV(x) == SelectSeq(x, LAMBDA c : c # "v")

DigitValue(c) ==
    CASE c = "0" -> 0 [] c = "1" -> 1 [] c = "2" -> 2 [] c = "3" -> 3
      [] c = "4" -> 4 [] c = "5" -> 5 [] c = "6" -> 6 [] c = "7" -> 7
      [] c = "8" -> 8 [] c = "9" -> 9

\* int(digits)
RECURSIVE IntOf(_)
IntOf(digits) ==
    IF digits = <<>> THEN 0
    ELSE 10 * IntOf(SubSeq(digits, 1, Len(digits) - 1))
         + DigitValue(digits[Len(digits)])

\* the sort key lambda x: int(x.split('.')[n]), n counted from 0
VersionKey(x, n) == IntOf(Split(x, ".")[n + 1])

\* x put into the sorted list l behind every element that does not have to
\* come after it: the sort is stable, and stays stable under reverse=True
RECURSIVE InsertByKey(_, _, _, _)
InsertByKey(l, x, n, reverse) ==
    IF l = <<>> THEN <<x>>
    ELSE IF (reverse /\ VersionKey(Head(l), n) >= VersionKey(x, n))
            \/ (~reverse /\ VersionKey(Head(l), n) <= VersionKey(x, n))
         THEN <<Head(l)>> \o InsertByKey(Tail(l), x, n, reverse)
         ELSE <<x>> \o l

\* sorted(l, key=lambda x: int(x.split('.')[n]), reverse=reverse)
RECURSIVE SortByKey(_, _, _)
SortByKey(l, n, reverse) ==
    IF l = <<>> THEN <<>>
    ELSE InsertByKey(SortByKey(SubSeq(l, 1, Len(l) - 1), n, reverse),
                     l[Len(l)], n, reverse)

\* the three sorts run in the opposite order: major first, patch last
SortVersionsMajorFirst(list, reverse) ==
    LET stripped == [i \in 1..Len(list) |-> RemoveV(list[i])]
    IN  SortByKey(SortByKey(SortByKey(stripped, 0, reverse), 1, reverse),
                  2, reverse)

\* sort_versions(version_list, reverse)
SortVersions(list, reverse) ==
    LET stripped == [i \in 1..Len(list) |-> RemoveV(list[i])]
    IN  SortByKey(SortByKey(SortByKey(stripped, 2, reverse), 1, reverse),
                  0, reverse)

\* version strings X.Y.Z, with and without the leading v
Components == {<<"2">>, <<"1", "0">>}
VersionStrings ==
    {pre \o a \o <<".">> \o b \o <<".">> \o c :
        pre \in {<<>>, <<"v">>}, a \in Components, b \in Components,
        c \in Components}

SortInit ==
    /\ version_list \in SeqsUpTo(VersionStrings, MaxVersions)
    /\ sorted_list = None
    /\ spc = "start"
    /\ NormIdle /\ ExtractIdle /\ LinkedIdle /\ VersionsIdle /\ SiteIdle
    /\ DocsIdle

SortVersionsCall ==
    /\ spc = "start"
    /\ \E reverse \in BOOLEAN :
          /\ sorted_list' = SortVersions(version_list, reverse)
          /\ spc' = IF reverse THEN "descending" ELSE "ascending"
    /\ UNCHANGED <<version_list, normVars, extractVars, linkedVars, versionsVars, siteVars, docsVars>>

SortNext == SortVersionsCall

SpecSort == SortInit /\ [][SortNext]_vars

Count(l, x) == Cardinality({i \in 1..Len(l) : l[i] = x})

Triple(x) == <<VersionKey(x, 0), VersionKey(x, 1), VersionKey(x, 2)>>

\* the numeric triple t is not below the numeric triple u
TripleGE(t, u) ==
    \/ t[1] > u[1]
    \/ t[1] = u[1] /\ t[2] > u[2]
    \/ t[1] = u[1] /\ t[2] = u[2] /\ t[3] >= u[3]

\* C8: with reverse=True the result is a permutation of the input without
\* its v and is ordered by the numeric triple (major, minor, patch),
\* descending
SortedDescendingByTriple ==
    spc = "descending" =>
        /\ Len(sorted_list) = Len(version_list)
        /\ \A i \in 1..Len(version_list) :
               Count(sorted_list, RemoveV(version_list[i]))
                 = Cardinality({j \in 1..Len(version_list) :
                        RemoveV(version_list[j]) = RemoveV(version_list[i])})
        /\ \A i \in 1..Len(sorted_list) : \A j \in i..Len(sorted_list) :
               TripleGE(Triple(sorted_list[i]), Triple(sorted_list[j]))

\* three versions were reordered, 10.x.y put before 2.x.y where the strings
\* compare the other way
SortedDescendingByTripleWitness ==
    /\ spc = "descending"
    /\ Len(sorted_list) = 3
    /\ version_list[1][1] = "v"
    /\ sorted_list[1] # RemoveV(version_list[1])
    /\ Triple(sorted_list[1])[1] = 10
    /\ Triple(sorted_list[3])[1] = 2
-----------------------------------------------------------------------------
(* Version discovery: check_version_str, get_linked_versions, get_versions *)

Current == <<"c", "u", "r", "r", "e", "n", "t">>

\* check_version_str(version)
CheckVersionStr(v) ==
    IF ~(v # <<>> /\ v[1] = "v") /\ v # Current THEN <<"v">> \o v ELSE v

chapters == <<10, 9, 8>>

\* requests.get(version_page.format(ver=ver, chapter=chapter))
GetPage(s, ver, chapter) == s[<<ver, chapter>>]

\* the list comprehension over soup_vers.find_all('a'): the anchors whose
\* text starts with Version, with 'Version ' taken out
ParseVersions(anchors) ==
    LET kept == SelectSeq(anchors, LAMBDA a : a # <<>> /\ a[1] = "Version")
    IN  [k \in 1..Len(kept) |->
            IF Len(kept[k]) >= 2 /\ kept[k][2] = SP
            THEN SubSeq(kept[k], 3, Len(kept[k]))
            ELSE kept[k]]

\* the loop that asks for every chapter, whatever the status of the response
RECURSIVE TryChaptersAll(_, _, _, _, _)
TryChaptersAll(s, ver, i, r, log) ==
    IF i < Len(chapters)
    THEN LET next == GetPage(s, ver, chapters[i + 1])
         IN  TryChaptersAll(s, ver, i + 1, next,
                 Append(log, [chapter |-> chapters[i + 1], status |-> next.status]))
    ELSE [r |-> r, requests |-> log]

\* while r.status_code == 404 and i < len(chapters), i counted from 0
RECURSIVE TryChapters(_, _, _, _, _)
TryChapters(s, ver, i, r, log) ==
    IF r.status = 404 /\ i < Len(chapters)
    THEN LET next == GetPage(s, ver, chapters[i + 1])
         IN  TryChapters(s, ver, i + 1, next,
                 Append(log, [chapter |-> chapters[i + 1], status |-> next.status]))
    ELSE [r |-> r, requests |-> log]

\* get_linked_versions(version) on the site s: the returned list, and the
\* requests it issued in their order
GetLinkedVersions(s, v) ==
    LET ver == CheckVersionStr(v)
        first == GetPage(s, ver, chapters[1])
        log == <<[chapter |-> chapters[1], status |-> first.status]>>
        last == IF first.status = 404
                THEN TryChapters(s, ver, 1, first, log)
                ELSE [r |-> first, requests |-> log]
    IN  [ret |-> IF last.r.status = 404 THEN <<>>
                 ELSE ParseVersions(last.r.anchors),
         requests |-> last.requests]

\* check_manual_exists(version)
CheckManualExists(m, v) == CheckVersionStr(v) \in m

Missing == [status |-> 404, anchors |-> <<>>]

V2 == <<"2", ".", "2", ".", "2">>
V10 == <<"1", "0", ".", "2", ".", "2">>
VersionAnchor(v) == <<"Version", SP>> \o v

(* Specification of get_linked_versions alone *)
LinkedAnchors == {VersionAnchor(V2), <<"a">>}
LinkedPages ==
    [status : {200}, anchors : SeqsUpTo(LinkedAnchors, MaxAnchors)]
      \cup {Missing, [status |-> 503, anchors |-> <<>>]}

LinkedInit ==
    /\ version \in {Current, V2, <<"v">> \o V2}
    /\ site \in [{CheckVersionStr(version)} \X {10, 9, 8} -> LinkedPages]
    /\ manuals = {}
    /\ linked = None
    /\ lpc = "start"
    /\ NormIdle /\ ExtractIdle /\ SortIdle /\ VersionsIdle /\ DocsIdle

GetLinkedVersionsCall ==
    /\ lpc = "start"
    /\ linked' = GetLinkedVersions(site, version)
    /\ lpc' = "done"
    /\ UNCHANGED <<version, siteVars, normVars, extractVars, sortVars, versionsVars, docsVars>>

LinkedNext == GetLinkedVersionsCall

SpecLinked == LinkedInit /\ [][LinkedNext]_vars

PageOf(c) == site[<<CheckVersionStr(version), c>>]

\* C10: the requests are for the chapters 10, 9, 8 in that order, at most
\* three, each but the first after a 404; the first response that is not a
\* 404 is the one parsed, and three 404 responses give the empty list
LinkedVersionsChapterOrder ==
    lpc = "done" =>
        LET log == linked.requests
            found == {k \in 1..3 : PageOf(chapters[k]).status # 404}
        IN  /\ Len(log) \in 1..3
            /\ \A k \in 1..Len(log) :
                   /\ log[k].chapter = chapters[k]
                   /\ log[k].status = PageOf(chapters[k]).status
                   /\ k > 1 => log[k - 1].status = 404
            /\ found = {} => (Len(log) = 3 /\ linked.ret = <<>>)
            /\ found # {} =>
                   LET k == CHOOSE x \in found : \A y \in found : x <= y
                   IN  /\ Len(log) = k
                       /\ linked.ret = ParseVersions(PageOf(chapters[k]).anchors)

\* chapter 10 was missing, chapter 9 was parsed and chapter 8, which holds
\* another list, was never asked for
LinkedVersionsChapterOrderWitness ==
    /\ lpc = "done"
    /\ Len(linked.requests) = 2
    /\ linked.ret # <<>>
    /\ PageOf(8).status = 200
    /\ ParseVersions(PageOf(8).anchors) # linked.ret
-----------------------------------------------------------------------------
(* Specification of get_versions *)
Range(l) == {l[i] : i \in 1..Len(l)}

\* the orders in which iterating over the set S can give its elements
Orderings(S) ==
    {f \in [1..Cardinality(S) -> S] : \A i, j \in 1..Cardinality(S) :
                                        f[i] = f[j] => i = j}

SiteKeys == {Current, <<"v">> \o V2, <<"v">> \o V10}
HistoryPages ==
    [status : {200},
     anchors : SeqsUpTo({VersionAnchor(V2), VersionAnchor(V10)}, MaxAnchors)]
      \cup {Missing}

\* a version's history page is chapter 9 of its manual, or is missing
VersionsInit ==
    /\ \E history \in [SiteKeys -> HistoryPages] :
          site = [k \in SiteKeys \X {10, 9, 8} |->
                    IF k[2] = 9 THEN history[k[1]] ELSE Missing]
    /\ manuals \in SUBSET (SiteKeys \ {Current})
    /\ versions = <<>>
    /\ results = <<>>
    /\ gpc = "start"
    /\ iters = 0
    /\ NormIdle /\ ExtractIdle /\ SortIdle /\ LinkedIdle /\ DocsIdle

\* start = check_version_str(start); versions = get_linked_versions(start);
\* results = versions[:]
GetVersionsStart ==
    /\ gpc = "start"
    /\ versions' = GetLinkedVersions(site, CheckVersionStr(Current)).ret
    /\ results' = versions'
    /\ gpc' = "loop"
    /\ UNCHANGED <<iters, siteVars, normVars, extractVars, sortVars, linkedVars, docsVars>>

\* one pass of the body of while results
GetVersionsExpand ==
    /\ gpc = "loop"
    /\ results # <<>>
    /\ iters < MaxIters
    /\ results' = GetLinkedVersions(site, results[Len(results)]).ret
    /\ versions' = IF results' # <<>> THEN versions \o results' ELSE versions
    /\ iters' = iters + 1
    /\ UNCHANGED <<gpc, siteVars, normVars, extractVars, sortVars, linkedVars, docsVars>>

\* the loop is left: versions = [x for x in set(versions) if
\* check_manual_exists(x)]; return sort_versions(versions, reverse=True)
GetVersionsReturn ==
    /\ gpc = "loop"
    /\ results = <<>>
    /\ \E order \in Orderings(Range(versions)) :
          versions' = SortVersions(
              SelectSeq(order, LAMBDA x : CheckManualExists(manuals, x)), TRUE)
    /\ gpc' = "done"
    /\ UNCHANGED <<results, iters, siteVars, normVars, extractVars, sortVars, linkedVars, docsVars>>

VersionsNext == GetVersionsStart \/ GetVersionsExpand \/ GetVersionsReturn

SpecVersions == VersionsInit /\ [][VersionsNext]_vars

\* C9: the discovery loop stops once the expansion step returns no new
\* versions: a pass of the loop that returns only versions already in the
\* list leaves nothing to expand, on every link relation, cycles included
StopsWhenNoNewVersions ==
    [][(gpc = "loop" /\ gpc' = "loop" /\ Range(results') \subseteq Range(versions))
          => results' = <<>>]_vars
-----------------------------------------------------------------------------
(* The driver: grab_command_list and grab_condor_docs *)

IndexUrl(ver) == <<"manual/", ver, "/", "11_Command_Reference.html">>

\* os.path.dirname(index_url)
Dirname(url) == SubSeq(url, 1, Len(url) - 2)

\* os.path.join(base_url, page)
PathJoin(base, page) == base \o <<"/">> \o page

\* grab_command_list without its r.raise_for_status()
GrabCommandListUnchecked(index_url, r) ==
    IF ~r.ul
    THEN [raised |-> "AttributeError", commands |-> <<>>]
    ELSE [raised |-> "none",
          commands |-> [k \in 1..Len(r.items) |->
              CondorCmd(r.items[k].name,
                        PathJoin(Dirname(index_url), r.items[k].href))]]

\* grab_command_list(index_url) on the response r of requests.get(index_url);
\* r.ul tells whether the page has a ul (soup.ul is not None) and r.items is
\* the list of the (name, href) of the items of the first ul
GrabCommandList(index_url, r) ==
    IF RaiseForStatus(r.status)
    THEN [raised |-> "HTTPError", commands |-> <<>>]
    ELSE IF ~r.ul
    THEN [raised |-> "AttributeError", commands |-> <<>>]
    ELSE [raised |-> "none",
          commands |-> [k \in 1..Len(r.items) |->
              CondorCmd(r.items[k].name,
                        PathJoin(Dirname(index_url), r.items[k].href))]]

(* Specification of grab_condor_docs *)
CommandNames == {"condor_submit_dag", "condor_q"}
IndexItems == {[name |-> n, href |-> <<n, ".html">>] : n \in CommandNames}
IndexResponses ==
    [status : Statuses, ul : {TRUE}, items : SeqsUpTo(IndexItems, MaxCommands)]
      \cup [status : Statuses, ul : {FALSE}, items : {<<>>}]

\* a manual page of the command, a page without the two sections, no body
ManualPage(name) ==
    <<NL, name, NL, "a", NL, "Synopsis", NL, name, SP, "a", NL, SP,
      "Description", NL, "a">>
PageResponses(name) ==
    [status : Statuses, body : {ManualPage(name), <<"a">>, None}]

DocsInit ==
    /\ commands = <<>>
    /\ idx = 0
    /\ dump = None
    /\ dpc = "start"
    /\ fetchLog = <<>>
    /\ NormIdle /\ ExtractIdle /\ SortIdle /\ LinkedIdle /\ VersionsIdle
    /\ SiteIdle

\* commands = grab_command_list(...)
GrabCommandListCall ==
    /\ dpc = "start"
    /\ \E r \in IndexResponses :
          LET out == GrabCommandList(IndexUrl("current"), r)
          IN  /\ fetchLog' = Append(fetchLog,
                                   [url |-> IndexUrl("current"), resp |-> r])
              /\ commands' = out.commands
              /\ dpc' = IF out.raised # "none" THEN "raised" ELSE "loop"
    /\ idx' = 1
    /\ UNCHANGED <<dump, normVars, extractVars, sortVars, linkedVars,
                   versionsVars, siteVars>>

\* a pass of the for loop that takes the continue
SkipCommand ==
    /\ dpc = "loop"
    /\ idx <= Len(commands)
    /\ commands[idx].name # "condor_submit_dag"
    /\ idx' = idx + 1
    /\ UNCHANGED <<commands, dump, dpc, fetchLog, normVars, extractVars,
                   sortVars, linkedVars, versionsVars, siteVars>>

\* a pass of the for loop that calls grab_cmd_info and assigns its result
ExtractCommand ==
    /\ dpc = "loop"
    /\ idx <= Len(commands)
    /\ ~(commands[idx].name # "condor_submit_dag")
    /\ \E r \in PageResponses(commands[idx].name) :
          LET info_dict == GrabCmdInfo(commands[idx], r)
          IN  /\ fetchLog' = Append(fetchLog,
                                   [url |-> commands[idx].url, resp |-> r])
              /\ IF info_dict.raised # "none"
                 THEN dpc' = "raised" /\ UNCHANGED <<commands, idx>>
                 ELSE /\ commands' = [commands EXCEPT
                                        ![idx].brief = info_dict.brief,
                                        ![idx].synopsis = info_dict.synopsis]
                      /\ idx' = idx + 1
                      /\ dpc' = dpc
    /\ UNCHANGED <<dump, normVars, extractVars, sortVars, linkedVars,
                   versionsVars, siteVars>>

\* the loop is over: dump.json is written
WriteDump ==
    /\ dpc = "loop"
    /\ idx > Len(commands)
    /\ dump' = commands
    /\ dpc' = "done"
    /\ UNCHANGED <<commands, idx, fetchLog, normVars, extractVars, sortVars,
                   linkedVars, versionsVars, siteVars>>

DocsNext == GrabCommandListCall \/ SkipCommand \/ ExtractCommand \/ WriteDump

SpecDocs == DocsInit /\ [][DocsNext]_vars

\* C1: when dump.json is written, the page of every discovered command was
\* fetched, grab_cmd_info was run on it and the brief and the synopsis
\* written for the command are the ones it returned
EveryCommandExtracted ==
    dpc = "done" =>
        \A k \in 1..Len(dump) :
            \E j \in 1..Len(fetchLog) :
                /\ fetchLog[j].url = dump[k].url
                /\ dump[k].brief
                     = GrabCmdInfo(dump[k], fetchLog[j].resp).brief
                /\ dump[k].synopsis
                     = GrabCmdInfo(dump[k], fetchLog[j].resp).synopsis

\* C2 as stated: a page fetch that returns a status outside 2xx raises at
\* once, the run ends with the exception and dump.json is not written
NonSuccessFetchAborts ==
    \A j \in 1..Len(fetchLog) :
        fetchLog[j].resp.status \notin 200..299 =>
            /\ j = Len(fetchLog)
            /\ dpc = "raised"
            /\ dump = None

\* C2 amended: a page fetch that returns a 4xx or 5xx status raises at once,
\* the run ends with the exception and dump.json is not written
ErrorFetchAborts ==
    \A j \in 1..Len(fetchLog) :
        fetchLog[j].resp.status \in 400..599 =>
            /\ j = Len(fetchLog)
            /\ dpc = "raised"
            /\ dump = None

\* the index was read, then the page of a command answered 404
ErrorFetchAbortsWitness ==
    /\ dpc = "raised"
    /\ Len(fetchLog) = 2
    /\ fetchLog[2].resp.status = 404
    /\ fetchLog[2].resp.body # None
    /\ Len(commands) = 2
    /\ dump = None
====
